---- MODULE Spec2Model ----
(***************************************************************************)
(* Subproblem decomposers of dwave-hybrid (hybrid/decomposers.py).         *)
(*                                                                         *)
(* Variables of a problem are 1..n.  A binary quadratic model is a record  *)
(* [n, linear, quadratic, interactions]; `interactions` lists the keys of   *)
(* `quadratic` in the order they were added to the model.  Its graph has   *)
(* them as edges, and the adjacency of a node is iterated in the order its *)
(* edges were added.  Optional (None-able) values are sequences of length  *)
(* 0 or 1.                                                                 *)
(***************************************************************************)
EXTENDS Integers, Sequences, FiniteSets, TLC

\* ------------------------------------------------------------------ bounds

\* Largest configured subproblem size.
MaxSize == 3

\* rolling_history is a fraction k / RHDen.
RHDen == 2

\* ----------------------------------------------------------------- helpers

None == <<>>

Some(x) == <<x>>

Min(a, b) == IF a <= b THEN a ELSE b

RECURSIVE Sum(_, _)
Sum(f, S) ==
    IF S = {} THEN 0
    ELSE LET x == CHOOSE y \in S : TRUE IN f[x] + Sum(f, S \ {x})

RECURSIVE SortedSeq(_)
SortedSeq(S) ==
    IF S = {} THEN <<>>
    ELSE LET m == CHOOSE x \in S : \A y \in S : x <= y
         IN <<m>> \o SortedSeq(S \ {m})

Range(s) == {s[i] : i \in DOMAIN s}

\* ---------------------------------------------------------------- problems

\* Fully connected, four variables: with every variable at 1 the flip gains
\* are 5, 3, 1, 0.
ProblemK4 ==
    [n |-> 4, linear |-> <<2, 0, -2, -3>>,
     quadratic |-> [e \in {<<1, 2>>, <<1, 3>>, <<1, 4>>,
                           <<2, 3>>, <<2, 4>>, <<3, 4>>} |-> 1],
     interactions |-> <<<<1, 2>>, <<1, 3>>, <<1, 4>>,
                        <<2, 3>>, <<2, 4>>, <<3, 4>>>>]

\* Path 1 - 2 - 3 and an isolated variable 4; the interaction of 2 and 3 was
\* added before the interaction of 1 and 2.
ProblemPath ==
    [n |-> 4, linear |-> <<0, 1, -1, 0>>,
     quadratic |-> (<<1, 2>> :> -2) @@ (<<2, 3>> :> 1),
     interactions |-> <<<<2, 3>>, <<1, 2>>>>]

\* Two variables, one interaction.
ProblemPair ==
    [n |-> 2, linear |-> <<1, -1>>, quadratic |-> (<<1, 2>> :> 1),
     interactions |-> <<<<1, 2>>>>]

Problems == {ProblemK4, ProblemPath, ProblemPair}

Variables(bqm) == 1 .. bqm.n

\* BinaryQuadraticModel.energy over a BINARY sample.
Energy(bqm, sample) ==
    Sum([v \in Variables(bqm) |-> bqm.linear[v] * sample[v]], Variables(bqm))
    + Sum([e \in DOMAIN bqm.quadratic |->
             bqm.quadratic[e] * sample[e[1]] * sample[e[2]]],
          DOMAIN bqm.quadratic)

\* A sample set holding one sample: [vartype, values].
AllOf(bqm, x) == [v \in Variables(bqm) |-> x]

Alternating(bqm) == [v \in Variables(bqm) |-> v % 2]

SampleSets(bqm) ==
    {[vartype |-> "BINARY", values |-> AllOf(bqm, 1)],
     [vartype |-> "BINARY", values |-> AllOf(bqm, 0)],
     [vartype |-> "BINARY", values |-> Alternating(bqm)],
     [vartype |-> "SPIN", values |-> AllOf(bqm, 1)],
     [vartype |-> "SPIN", values |-> AllOf(bqm, -1)]}

\* samples.change_vartype(bqm.vartype).first.sample, the problems being BINARY:
\* a SPIN value s becomes (s + 1) / 2.
first_sample(samples) ==
    IF samples.vartype = "BINARY" THEN samples.values
    ELSE [v \in DOMAIN samples.values |-> (samples.values[v] + 1) \div 2]

\* ------------------------------------------------------------ ImpactScorer

\* The min_gain settings: no threshold, or a threshold of 3.
MinGains == {None, Some(3)}

Flip(sample, v) == [sample EXCEPT ![v] = 1 - sample[v]]

\* Energy reduction of flipping v alone.
Gain(bqm, sample, v) == Energy(bqm, sample) - Energy(bqm, Flip(sample, v))

RECURSIVE RankDesc(_, _)
RankDesc(S, gain) ==
    IF S = {} THEN <<>>
    ELSE LET best == CHOOSE v \in S : \A u \in S :
                         \/ gain[v] > gain[u]
                         \/ gain[v] = gain[u] /\ v <= u
         IN <<[v |-> best, en |-> gain[best]]>> \o RankDesc(S \ {best}, gain)

\* The ranked (variable, gain) order, gains below min_gain left out.
flip_energy_gains(bqm, sample, min_gain) ==
    LET gain == [v \in Variables(bqm) |-> Gain(bqm, sample, v)]
        kept == {v \in Variables(bqm) : min_gain = None \/ gain[v] >= min_gain[1]}
    IN RankDesc(kept, gain)

\* The binary samples the sample sets convert to.
Samples(bqm) == {first_sample(ss) : ss \in SampleSets(bqm)}

\* flip_energy_gains over the inputs of the model, evaluated once.
ImpactTable ==
    [k \in UNION {{<<bqm, sample, g>> : sample \in Samples(bqm), g \in MinGains}
                  : bqm \in Problems}
     |-> flip_energy_gains(k[1], k[2], k[3])]

\* impact = flip_energy_gains(bqm, sample, min_gain=self.min_gain)
impact(bqm, sample, min_gain) == ImpactTable[<<bqm, sample, min_gain>>]

\* Keys of the OrderedDict, in order.
Keys(ordered_priority) ==
    [i \in DOMAIN ordered_priority |-> ordered_priority[i].v]

\* OrderedDict.get: None for a variable that has no entry.
Get(ordered_priority, v) ==
    IF \E i \in DOMAIN ordered_priority : ordered_priority[i].v = v
    THEN Some(ordered_priority[CHOOSE i \in DOMAIN ordered_priority :
                                   ordered_priority[i].v = v].en)
    ELSE None

\* ------------------------------------------------------------------- graph

\* bqm.to_networkx_graph(): the edges in the order the interactions were
\* added.
to_networkx_graph(bqm) ==
    [nodes |-> Variables(bqm), edges |-> bqm.interactions]

remove_nodes_from(graph, S) ==
    LET kept(e) == e[1] \notin S /\ e[2] \notin S
    IN [nodes |-> graph.nodes \ S, edges |-> SelectSeq(graph.edges, kept)]

\* graph[u]: the neighbours of u in the order its edges were added.
adj(graph, u) ==
    LET touches(e) == e[1] = u \/ e[2] = u
        incident == SelectSeq(graph.edges, touches)
    IN [i \in DOMAIN incident |->
           IF incident[i][1] = u THEN incident[i][2] ELSE incident[i][1]]

Neighbors(graph, u) == Range(adj(graph, u))

\* ------------------------------------------------------- TraversalStrategy

Ok(vars) == [kind |-> "ok", vars |-> vars]

Raised(exc) == [kind |-> exc, vars |-> {}]

\* Mutant: a sequence shorter than `size` yields nothing.
islice_exact(s, size) == IF size > Len(s) THEN <<>> ELSE SubSeq(s, 1, size)

\* itertools.islice(seq, size)
islice(s, size) == SubSeq(s, 1, Min(size, Len(s)))

\* Mutant: the ranking is cut without leaving out the visited variables.
energy_list_revisit(ordered_priority, visited, size) ==
    islice(Keys(ordered_priority), size)

\* EnergyImpactDecomposer._energy: the next `size` unvisited variables of the
\* ranking, as a list.
energy_list(ordered_priority, visited, size) ==
    LET unvisited(v) == v \notin visited
    IN islice(SelectSeq(Keys(ordered_priority), unvisited), size)

\* networkx.bfs_edges(graph, source), consumed to its end: the sequence of
\* nodes it reaches, after the source the caller puts first.  Asking for the
\* neighbours of a node that is not in the graph raises NetworkXError.
RECURSIVE bfs_order(_, _, _)
bfs_order(graph, queue, found) ==
    IF queue = <<>> THEN [kind |-> "ok", nodes |-> found]
    ELSE IF Head(queue) \notin graph.nodes
    THEN [kind |-> "NetworkXError", nodes |-> <<>>]
    ELSE LET u == Head(queue)
             unseen(v) == v \notin Range(found)
             new == SelectSeq(adj(graph, u), unseen)
         IN bfs_order(graph, Tail(queue) \o new, found \o new)

\* Mutant: `size` nodes are taken after the source.
bfs_nodes_extra(graph, source, size, priority) ==
    IF size < 1 THEN Ok({})
    ELSE LET found == bfs_order(graph, <<source>>, <<source>>)
         IN IF found.kind # "ok" THEN Raised(found.kind)
            ELSE Ok({source} \cup Range(islice(Tail(found.nodes), size)))

\* EnergyImpactDecomposer._bfs_nodes, consumed by the caller's list(): with
\* size 1 the islice takes nothing and bfs_edges never starts.
bfs_nodes(graph, source, size, priority) ==
    IF size < 1 THEN Ok({})
    ELSE IF size = 1 THEN Ok({source})
    ELSE LET found == bfs_order(graph, <<source>>, <<source>>)
         IN IF found.kind # "ok" THEN Raised(found.kind)
            ELSE Ok({source} \cup Range(islice(Tail(found.nodes), size - 1)))

\* heappop on entries (-priority, counter, node): highest priority first,
\* then the lowest insertion counter.
heap_top(queue) ==
    CHOOSE e \in queue : \A f \in queue :
        \/ e.priority > f.priority
        \/ e.priority = f.priority /\ e.counter <= f.counter

\* The while loop of _pfs_nodes.  graph[node] raises KeyError for a node that
\* is not in the graph, and `-priority` raises TypeError for a neighbour
\* whose priority is None.
RECURSIVE pfs_loop(_, _, _, _, _, _, _)
pfs_loop(graph, size, priority, queue, counter, visited, enqueued) ==
    IF queue = {} \/ Cardinality(visited) >= size THEN Ok(visited)
    ELSE LET top == heap_top(queue)
             node == top.node
             rest == queue \ {top}
         IN IF node \in visited
            THEN pfs_loop(graph, size, priority, rest, counter, visited, enqueued)
            ELSE IF node \notin graph.nodes THEN Raised("KeyError")
            ELSE LET unqueued(v) == v \notin enqueued
                     fresh == SelectSeq(adj(graph, node), unqueued)
                     pushed == {[priority |-> Get(priority, fresh[i])[1],
                                 counter |-> counter + i - 1,
                                 node |-> fresh[i]] : i \in DOMAIN fresh}
                 IN IF \E i \in DOMAIN fresh : Get(priority, fresh[i]) = None
                    THEN Raised("TypeError")
                    ELSE pfs_loop(graph, size, priority, rest \cup pushed,
                                  counter + Len(fresh), visited \cup {node},
                                  enqueued \cup Range(fresh))

\* EnergyImpactDecomposer._pfs_nodes
pfs_nodes(graph, source, size, priority) ==
    IF size < 1 THEN Ok({})
    ELSE IF Get(priority, source) = None THEN Raised("TypeError")
    ELSE pfs_loop(graph, size, priority,
                  {[priority |-> Get(priority, source)[1], counter |-> 0,
                    node |-> source]},
                  1, {}, {})

\* method(graph, source, size, priority=ordered_priority.get)
Method(method, graph, source, size, priority) ==
    IF method = "bfs" THEN bfs_nodes(graph, source, size, priority)
    ELSE pfs_nodes(graph, source, size, priority)

\* The seed of a round: the next variable of `order` that is neither visited
\* nor selected; the sequence is what next(order) has not yet consumed.
RECURSIVE next_source(_, _)
next_source(order, skip) ==
    IF order = <<>> THEN <<>>
    ELSE IF Head(order) \in skip THEN next_source(Tail(order), skip)
    ELSE order

\* The while loop of _iterative_graph_search.
RECURSIVE igs_loop(_, _, _, _, _, _, _)
igs_loop(graph, ordered_priority, visited, size, method, variables, order) ==
    IF ~(Cardinality(variables) < size /\ graph.nodes # {}) THEN Ok(variables)
    ELSE LET from == next_source(order, visited \cup variables)
         IN IF from = <<>> THEN Ok(variables)
            ELSE LET found == Method(method, graph, Head(from),
                                     size - Cardinality(variables),
                                     ordered_priority)
                 IN IF found.kind # "ok" THEN found
                    ELSE igs_loop(remove_nodes_from(graph, found.vars),
                                  ordered_priority, visited, size, method,
                                  variables \cup found.vars, Tail(from))

\* EnergyImpactDecomposer._iterative_graph_search
iterative_graph_search(bqm, ordered_priority, visited, size, method) ==
    igs_loop(remove_nodes_from(to_networkx_graph(bqm), visited),
             ordered_priority, visited, size, method, {},
             Keys(ordered_priority))

\* self.traverse: the traverser chosen at construction.
traverse(traversal, bqm, ordered_priority, visited, size) ==
    IF traversal = "energy"
    THEN Ok(Range(energy_list(ordered_priority, visited, size)))
    ELSE iterative_graph_search(bqm, ordered_priority, visited, size, traversal)

\* The rankings the scorer produces for a problem.
RankingsOf(bqm) ==
    {impact(bqm, sample, g) : sample \in Samples(bqm), g \in MinGains}

\* self.traverse over the arguments of the model, evaluated once.
TraverseTable ==
    [k \in UNION {{<<t, bqm, r, visited, size>> :
                      t \in {"energy", "bfs", "pfs"}, r \in RankingsOf(bqm),
                      visited \in SUBSET Variables(bqm), size \in 0 .. MaxSize}
                  : bqm \in Problems}
     |-> traverse(k[1], k[2], k[3], k[4], k[5])]

\* next_vars = self.traverse(bqm, sample, ordered_priority=..., visited=...,
\* size=self.size)
next_vars_of(traversal, bqm, ordered_priority, visited, size) ==
    IF <<traversal, bqm, ordered_priority, visited, size>> \in DOMAIN TraverseTable
    THEN TraverseTable[<<traversal, bqm, ordered_priority, visited, size>>]
    ELSE traverse(traversal, bqm, ordered_priority, visited, size)

\* ------------------------------------------------ InducedSubproblemBuilder

\* utils.bqm_induced_by: the sub-model over `variables`; every excluded
\* neighbour's fixed value times the interaction weight is folded into the
\* linear bias.  Fails on an empty selection.
bqm_induced_by(bqm, variables, sample) ==
    IF variables = {} THEN None
    ELSE Some(
        [variables |-> variables,
         linear |-> [u \in variables |->
             bqm.linear[u]
             + Sum([e \in DOMAIN bqm.quadratic |->
                      IF e[1] = u /\ e[2] \notin variables
                      THEN bqm.quadratic[e] * sample[e[2]]
                      ELSE IF e[2] = u /\ e[1] \notin variables
                      THEN bqm.quadratic[e] * sample[e[1]]
                      ELSE 0],
                   DOMAIN bqm.quadratic)],
         quadratic |-> [e \in {f \in DOMAIN bqm.quadratic :
                                 f[1] \in variables /\ f[2] \in variables}
                        |-> bqm.quadratic[e]]])

\* bqm_induced_by over the arguments of the model, evaluated once.
InducedTable ==
    [k \in UNION {{<<bqm, variables, sample>> :
                      variables \in SUBSET Variables(bqm),
                      sample \in Samples(bqm)} : bqm \in Problems}
     |-> bqm_induced_by(k[1], k[2], k[3])]

\* subbqm = bqm_induced_by(bqm, next_vars, sample)
subbqm_of(bqm, variables, sample) ==
    IF <<bqm, variables, sample>> \in DOMAIN InducedTable
    THEN InducedTable[<<bqm, variables, sample>>]
    ELSE bqm_induced_by(bqm, variables, sample)

\* ------------------------------------------------------------------- State

\* hybrid.core.State as the decomposers receive it.
State(problem, samples) ==
    [problem |-> problem, samples |-> samples,
     subproblem |-> None, embedding |-> None]

\* The states the workflow passes in: the sample set assigns every variable
\* of the problem.
InputStates ==
    UNION {{State(bqm, ss) : ss \in SampleSets(bqm)} : bqm \in Problems}

\* state.updated(subproblem=...)
updated_subproblem(state, subbqm) == [state EXCEPT !.subproblem = Some(subbqm)]

\* samples.change_vartype(vartype): dimod converts the sample set in place
\* (inplace=True is its default) and returns it.
change_vartype(samples, vartype) ==
    IF samples.vartype = vartype THEN samples
    ELSE [vartype |-> vartype,
          values |-> [v \in DOMAIN samples.values |->
                         IF vartype = "BINARY"
                         THEN (samples.values[v] + 1) \div 2
                         ELSE 2 * samples.values[v] - 1]]

\* The State object a decomposer received, after
\* `state.samples.change_vartype(bqm.vartype)` ran on its sample set (the
\* problems being BINARY).
converted(state) ==
    [state EXCEPT !.samples = change_vartype(state.samples, "BINARY")]

\* -------------------------------------------------- EnergyImpactDecomposer

VARIABLES
    eid,        \* the EnergyImpactDecomposer instance, None before construction
    ctor,       \* the last constructor call: its arguments and outcome
    last,       \* the last select call: its input, what it did, its outcome
    prev,       \* outcome, problem and sample of the select call before `last`
    cycle,      \* the non-empty subsets returned since the visited set was last cleared
    covered,    \* the variables returned so far for the stalled state
    stalled,    \* the state a stalled workflow keeps passing in
    tick,       \* parity of the number of select calls of the stalled workflow
    search,     \* a call of _iterative_graph_search: its arguments and result
    tcd,        \* the TilingChimeraDecomposer instance and its last call
    rcd,        \* the RandomConstraintDecomposer instance and its last call
    rsd,        \* the RandomSubproblemDecomposer instance and its last call
    idd,        \* the IdentityDecomposer instance and its last call
    flight,     \* select calls in flight on the EnergyImpactDecomposer instance
    pfs         \* a call of _pfs_nodes, loop iteration by loop iteration

Traversers == {"energy", "bfs", "pfs"}

EidArgs ==
    [size : 0 .. MaxSize, min_gain : MinGains, rolling : BOOLEAN,
     rolling_history : -1 .. RHDen + 1, silent_rewind : BOOLEAN,
     traversal : Traversers \cup {"dfs"}]

\* `rolling and rolling_history < 0.0 or rolling_history > 1.0`, the fraction
\* being rolling_history / RHDen.
rolling_history_rejected(rolling, rolling_history) ==
    (rolling /\ rolling_history < 0) \/ rolling_history > RHDen

\* EnergyImpactDecomposer.__init__: None when it raises ValueError.
eid_init(args) ==
    IF rolling_history_rejected(args.rolling, args.rolling_history) THEN None
    ELSE IF args.traversal \notin Traversers THEN None
    ELSE Some([size |-> args.size, min_gain |-> args.min_gain,
               rolling |-> args.rolling,
               rolling_history |-> args.rolling_history,
               silent_rewind |-> args.silent_rewind,
               traverse |-> args.traversal,
               unrolled_vars |-> {}, rolling_bqm |-> None,
               variable_priority |-> <<>>, prev_sample |-> None])

\* Mutant: the rewind records the problem and keeps the visited set.
rewind_rolling_keep(self, state) ==
    [self EXCEPT !.rolling_bqm = Some(state.problem)]

\* _rewind_rolling
rewind_rolling(self, state) ==
    [self EXCEPT !.unrolled_vars = {}, !.rolling_bqm = Some(state.problem)]

\* Mutant: the threshold has to be passed, not reached.
rolling_due_strict(unrolled, rolling_history, n) ==
    unrolled * RHDen > rolling_history * n

\* Mutant: the threshold is never taken as reached.
rolling_due_never(unrolled, rolling_history, n) == FALSE

\* Mutant: any visited variable is enough for a rewind.
rolling_due_any(unrolled, rolling_history, n) == unrolled > 0

\* `len(self._unrolled_vars) >= self.rolling_history * len(bqm)`
rolling_due(unrolled, rolling_history, n) ==
    unrolled * RHDen >= rolling_history * n

\* Mutant: only the first problem the instance sees counts as a change.
problem_changed_once(bqm, rolling_bqm) == rolling_bqm = None

\* `bqm != self._rolling_bqm`
problem_changed(bqm, rolling_bqm) == Some(bqm) # rolling_bqm

\* Mutant: a changed assignment alone does not refresh the ranking.
cache_stale_problem_only(bqm_changed, sample_changed, variable_priority) ==
    bqm_changed \/ variable_priority = <<>>

\* `bqm_changed or sample_changed or not self._variable_priority`
cache_stale(bqm_changed, sample_changed, variable_priority) ==
    bqm_changed \/ sample_changed \/ variable_priority = <<>>

\* EnergyImpactDecomposer.next up to the rolling check: the instance after
\* the problem/sample bookkeeping and the ranking cache, and what was decided.
eid_prepare(self, state) ==
    LET bqm == state.problem
        sample == first_sample(state.samples)
        bqm_changed == problem_changed(bqm, self.rolling_bqm)
        sample_changed == Some(sample) # self.prev_sample
        s1 == IF bqm_changed THEN rewind_rolling(self, state) ELSE self
        s2 == IF sample_changed THEN [s1 EXCEPT !.prev_sample = Some(sample)]
              ELSE s1
        recompute == cache_stale(bqm_changed, sample_changed, s2.variable_priority)
        s3 == IF recompute
              THEN [s2 EXCEPT !.variable_priority =
                        impact(bqm, sample, self.min_gain)]
              ELSE s2
        due == s3.rolling /\ rolling_due(Cardinality(s3.unrolled_vars),
                                         s3.rolling_history, bqm.n)
        s4 == IF due THEN rewind_rolling(s3, state) ELSE s3
    IN [self |-> s4, sample |-> sample, bqm_changed |-> bqm_changed,
        recomputed |-> recompute, pre |-> s3.unrolled_vars, rolled |-> due,
        entry |-> self.unrolled_vars,
        cached_empty |-> self.variable_priority = <<>>]

\* Mutant: the chosen variables are never added to the visited set.
unrolled_update_skip(self, next_vars) == self.unrolled_vars

\* Mutant: the chosen variables are added whether rolling or not.
unrolled_update_always(self, next_vars) == self.unrolled_vars \cup next_vars

\* `if self.rolling: self._unrolled_vars.update(next_vars)`
unrolled_update(self, next_vars) ==
    IF self.rolling THEN self.unrolled_vars \cup next_vars
    ELSE self.unrolled_vars

\* EnergyImpactDecomposer.next from the rolling check on, p being what
\* eid_prepare decided: the instance after the call and the call's record;
\* `out` is the returned State, None when the call raised.
eid_select(p, state) ==
    LET self == p.self
        rec == [input |-> Some(state),
                problem |-> Some(state.problem), sample |-> p.sample,
                bqm_changed |-> p.bqm_changed, recomputed |-> p.recomputed,
                pre |-> p.pre, rolled |-> p.rolled,
                entry |-> p.entry, cached_empty |-> p.cached_empty,
                kind |-> "ok", next_vars |-> {}, out |-> None]
    IN IF p.rolled /\ ~self.silent_rewind
       THEN [self |-> self, rec |-> [rec EXCEPT !.kind = "EndOfStream"]]
       ELSE LET t == next_vars_of(self.traverse, state.problem,
                                  self.variable_priority, self.unrolled_vars,
                                  self.size)
            IN IF t.kind # "ok"
               THEN [self |-> self, rec |-> [rec EXCEPT !.kind = t.kind]]
               ELSE LET after == [self EXCEPT !.unrolled_vars =
                                      unrolled_update(self, t.vars)]
                        sub == subbqm_of(state.problem, t.vars, p.sample)
                    IN IF sub = None
                       THEN [self |-> after,
                             rec |-> [rec EXCEPT !.kind = "EmptySelection",
                                                 !.next_vars = t.vars]]
                       ELSE [self |-> after,
                             rec |-> [rec EXCEPT
                                 !.next_vars = t.vars,
                                 !.out = Some(updated_subproblem(converted(state),
                                                                 sub[1]))]]

NoCtor == [args |-> None, kind |-> "none"]

NoCall ==
    [input |-> None,
     problem |-> None, sample |-> <<>>, bqm_changed |-> FALSE,
     recomputed |-> FALSE, pre |-> {}, rolled |-> FALSE,
     entry |-> {}, cached_empty |-> TRUE, kind |-> "none",
     next_vars |-> {}, out |-> None]

NoPrev == [kind |-> "none", problem |-> None, sample |-> <<>>]

\* The subsets returned since the visited set was last cleared.
cycle_after(seen, rolling, rec) ==
    LET base == IF rec.bqm_changed \/ rec.rolled THEN <<>> ELSE seen
    IN IF rolling /\ rec.kind = "ok" /\ rec.next_vars # {}
       THEN Append(base, rec.next_vars)
       ELSE base

others == <<search, tcd, rcd, rsd, idd, flight, pfs>>

\* EnergyImpactDecomposer(...)
Construct(args) ==
    /\ eid = None
    /\ ctor = NoCtor
    /\ eid' = eid_init(args)
    /\ ctor' = [args |-> Some(args),
                kind |-> IF eid_init(args) = None THEN "ValueError" ELSE "ok"]
    /\ UNCHANGED <<last, prev, cycle, covered, stalled, tick, others>>

\* decomposer.next(state), and the records kept of it.
SelectCall(state) ==
    /\ eid # None
    /\ \E p \in {eid_prepare(eid[1], state)} :
       \E r \in {eid_select(p, state)} :
          /\ eid' = Some(r.self)
          /\ last' = r.rec
          /\ prev' = [kind |-> last.kind, problem |-> last.problem,
                       sample |-> last.sample]
          /\ cycle' = cycle_after(cycle, r.self.rolling, r.rec)
    /\ UNCHANGED <<ctor, stalled, others>>

\* A select call with any state of the workflow.
Select(state) ==
    /\ SelectCall(state)
    /\ UNCHANGED <<covered, tick>>

\* A select call of a stalled workflow: the same problem and sample set again.
SelectStalled ==
    /\ stalled # None
    /\ SelectCall(stalled[1])
    /\ covered' = covered \cup last'.next_vars
    /\ tick' = 1 - tick

vars ==
    <<eid, ctor, last, prev, cycle, covered, stalled, tick, search, tcd, rcd,
      rsd, idd, flight, pfs>>

NoSearch == [done |-> FALSE]

NoTcd == [made |-> FALSE]

NoRcd == [made |-> FALSE, kind |-> "none", out |-> None]

NoRsd == [made |-> FALSE, kind |-> "none", out |-> None]

NoIdd == [made |-> FALSE, kind |-> "none", out |-> None]

NoFlight == [open |-> <<>>, done |-> <<>>, raced |-> FALSE, calls |-> 0]

NoPfs == [phase |-> "idle"]

EidIdle ==
    /\ eid = None
    /\ ctor = NoCtor
    /\ last = NoCall
    /\ prev = NoPrev
    /\ cycle = <<>>
    /\ covered = {}
    /\ tick = 0

Init ==
    /\ EidIdle
    /\ stalled = None
    /\ search = NoSearch
    /\ tcd = NoTcd
    /\ rcd = NoRcd
    /\ rsd = NoRsd
    /\ idd = NoIdd
    /\ flight = NoFlight
    /\ pfs = NoPfs

Next ==
    \/ \E args \in EidArgs : Construct(args)
    \/ \E state \in InputStates : Select(state)

Spec == Init /\ [][Next]_vars

\* A workflow whose best assignment has stalled: after construction every
\* select call passes the same state, and select keeps being called.
InitStalled ==
    /\ EidIdle
    /\ stalled \in {Some(state) : state \in InputStates}
    /\ search = NoSearch
    /\ tcd = NoTcd
    /\ rcd = NoRcd
    /\ rsd = NoRsd
    /\ idd = NoIdd
    /\ flight = NoFlight
    /\ pfs = NoPfs

NextStalled ==
    \/ \E args \in EidArgs : Construct(args)
    \/ SelectStalled

SpecStalled == InitStalled /\ [][NextStalled]_vars /\ WF_vars(SelectStalled)

\* ------------------------------------------------- graph search, alone

SearchInputs ==
    UNION {{[done |-> FALSE, method |-> m, bqm |-> bqm,
             ordered_priority |-> r, visited |-> visited, size |-> size,
             result |-> Ok({})] :
               m \in {"bfs", "pfs"}, r \in RankingsOf(bqm),
               visited \in SUBSET Variables(bqm), size \in 0 .. MaxSize}
           : bqm \in Problems}

\* One call of _iterative_graph_search(bqm, sample, ordered_priority, visited,
\* size, method).
Search ==
    /\ ~search.done
    /\ search' = [search EXCEPT
           !.done = TRUE,
           !.result = iterative_graph_search(search.bqm, search.ordered_priority,
                                             search.visited, search.size,
                                             search.method)]
    /\ UNCHANGED <<eid, ctor, last, prev, cycle, covered, stalled, tick, tcd, rcd,
                 rsd, idd, flight, pfs>>

InitTraversal ==
    /\ EidIdle
    /\ stalled = None
    /\ search \in SearchInputs
    /\ tcd = NoTcd
    /\ rcd = NoRcd
    /\ rsd = NoRsd
    /\ idd = NoIdd
    /\ flight = NoFlight
    /\ pfs = NoPfs

SpecTraversal == InitTraversal /\ [][Search]_vars

\* ------------------------------------------------- TilingChimeraDecomposer

\* Calls of next counted per instance, up to this many.
MaxCalls == 6

\* utils.chimera_tiles: the tiles of the problem in their fixed order, each an
\* embedding from problem variables to the nodes of the tile.  A tile holds
\* `size` consecutive variables, the last tile what remains.
chimera_tiles(bqm, size) ==
    LET count == (bqm.n + size - 1) \div size
    IN [k \in 1 .. count |->
           [v \in {u \in Variables(bqm) : (u - 1) \div size = k - 1}
            |-> {v - (k - 1) * size}]]

\* TilingChimeraDecomposer.__init__
tcd_new(size, loop) ==
    [made |-> TRUE, size |-> size, loop |-> loop, blocks |-> None,
     problem |-> None, calls |-> 0, kind |-> "none", input |-> None,
     out |-> None]

\* TilingChimeraDecomposer.init: an iterator over the tiles, wrapped in
\* itertools.cycle when looping.
tcd_init(self, state) ==
    [self EXCEPT
        !.blocks = Some([items |-> chimera_tiles(state.problem, self.size),
                         pos |-> 1, cycle |-> self.loop]),
        !.problem = Some(state.problem)]

\* next(self.blocks): the item and the advanced iterator, None when the
\* iterator raises StopIteration.
next_block(blocks) ==
    IF blocks.pos <= Len(blocks.items)
    THEN Some([item |-> blocks.items[blocks.pos],
               blocks |-> [blocks EXCEPT !.pos = blocks.pos + 1]])
    ELSE IF blocks.cycle /\ Len(blocks.items) > 0
    THEN Some([item |-> blocks.items[1], blocks |-> [blocks EXCEPT !.pos = 2]])
    ELSE None

\* TilingChimeraDecomposer.next
tcd_next(self, state) ==
    LET counted == [self EXCEPT !.calls = self.calls + 1,
                                !.input = Some(state)]
        got == next_block(self.blocks[1])
    IN IF self.blocks = None
       THEN [counted EXCEPT !.kind = "TypeError", !.out = None]
       ELSE IF got = None
       THEN [counted EXCEPT !.kind = "StopIteration", !.out = None]
       ELSE LET embedding == got[1].item
                sub == subbqm_of(state.problem, DOMAIN embedding,
                                 first_sample(state.samples))
            IN [counted EXCEPT
                   !.blocks = Some(got[1].blocks),
                   !.kind = "ok",
                   !.out = Some([converted(state) EXCEPT
                                    !.subproblem = sub,
                                    !.embedding = Some(embedding)])]

\* TilingChimeraDecomposer(size, loop)
TcdConstruct(size, loop) ==
    /\ ~tcd.made
    /\ tcd' = tcd_new(size, loop)
    /\ UNCHANGED <<eid, ctor, last, prev, cycle, covered, stalled, tick, search, rcd,
                 rsd, idd, flight, pfs>>

\* decomposer.init(state), the one-time setup
TcdInit(state) ==
    /\ tcd.made
    /\ tcd.blocks = None
    /\ tcd.calls = 0
    /\ tcd' = tcd_init(tcd, state)
    /\ UNCHANGED <<eid, ctor, last, prev, cycle, covered, stalled, tick, search, rcd,
                 rsd, idd, flight, pfs>>

\* decomposer.next(state), on the problem of the setup when there was one
TcdNext(state) ==
    /\ tcd.made
    /\ tcd.calls < MaxCalls
    /\ tcd.problem # None => state.problem = tcd.problem[1]
    /\ tcd' = tcd_next(tcd, state)
    /\ UNCHANGED <<eid, ctor, last, prev, cycle, covered, stalled, tick, search, rcd,
                 rsd, idd, flight, pfs>>

InitTiling ==
    /\ EidIdle
    /\ stalled = None
    /\ search = NoSearch
    /\ tcd = NoTcd
    /\ rcd = NoRcd
    /\ rsd = NoRsd
    /\ idd = NoIdd
    /\ flight = NoFlight
    /\ pfs = NoPfs

NextTiling ==
    \/ \E size \in 1 .. MaxSize, loop \in BOOLEAN : TcdConstruct(size, loop)
    \/ \E state \in InputStates : TcdInit(state)
    \/ \E state \in InputStates : TcdNext(state)

SpecTiling == InitTiling /\ [][NextTiling]_vars

\* ---------------------------------------------- RandomConstraintDecomposer

\* Constraint lists: groups of variables, in list order.
ConstraintLists ==
    { <<{1, 2}, {2, 3}, {3, 4}>>,
      <<{1, 2}, {3, 4}>>,
      <<{1}, {2, 3}, {3, 4}>>,
      <<{1, 2}, {1, 2}>>,
      <<{1, 2}, {2, 3, 4}>>,
      <<{1}, {1, 2, 3}>>,
      <<{1, 2}, {2}>>,
      <<{1}, {2}>> }

ConstraintVariables(constraints) == UNION Range(constraints)

\* RandomConstraintDecomposer.__init__: ValueError when a group is larger than
\* size, else the instance.
rcd_new(size, constraints) ==
    [made |-> ~(\E ci \in DOMAIN constraints : Cardinality(constraints[ci]) > size),
     size |-> size, constraints |-> constraints,
     graph |-> None, problem |-> None, seed |-> None, input |-> None,
     kind |-> IF \E ci \in DOMAIN constraints : Cardinality(constraints[ci]) > size
              THEN "ValueError" ELSE "none",
     out |-> None]

\* The constraint graph of init: an edge joins two constraints (0-based
\* positions in the list) that share a variable; its nodes are the endpoints
\* of its edges.  The edges are added for ci ascending and, for one ci, for
\* i ascending.
constraint_graph(constraints) ==
    LET n == Len(constraints)
        pairs == [p \in 1 .. n * n |-> <<(p - 1) \div n, (p - 1) % n>>]
        joined(e) == /\ e[1] < e[2]
                     /\ constraints[e[1] + 1] \cap constraints[e[2] + 1] # {}
        edges == SelectSeq(pairs, joined)
    IN [nodes |-> {e[1] : e \in Range(edges)} \cup {e[2] : e \in Range(edges)},
        edges |-> edges]

\* RandomConstraintDecomposer.init
rcd_init(self, state) ==
    IF self.size > state.problem.n
    THEN [self EXCEPT !.kind = "ValueError"]
    ELSE [self EXCEPT !.graph = Some(constraint_graph(self.constraints)),
                      !.problem = Some(state.problem),
                      !.kind = "none"]

\* Mutant: the set takes the first variable of the list.
accumulate_first(variables, proposed) ==
    IF proposed = <<>> THEN Some(variables) ELSE Some(variables \cup {proposed[1]})

\* variables.add(proposed) with proposed a list: a list is unhashable, the
\* call raises TypeError and adds nothing.
accumulate(variables, proposed) == None

\* The loop over nx.bfs_edges(CG, n): `targets` are the constraints reached,
\* in order.
RECURSIVE rcd_loop(_, _, _, _)
rcd_loop(constraints, targets, variables, size) ==
    IF targets = <<>> THEN Ok(variables)
    ELSE LET proposed == SortedSeq(constraints[Head(targets) + 1] \ variables)
             fits == Len(proposed) + Cardinality(variables) <= size
             added == accumulate(variables, proposed)
         IN IF fits /\ added = None THEN Raised("TypeError")
            ELSE LET grown == IF fits THEN added[1] ELSE variables
                 IN IF Cardinality(grown) = size THEN Ok(grown)
                    ELSE rcd_loop(constraints, Tail(targets), grown, size)

\* RandomConstraintDecomposer.next with n the draw of
\* random.choice(range(len(CG))).
rcd_next(self, state, n) ==
    LET called == [self EXCEPT !.seed = Some(n), !.input = Some(state),
                               !.out = None]
        CG == self.graph[1]
        constraints == self.constraints
    IN IF Cardinality(constraints[n + 1]) > self.size
       THEN [called EXCEPT !.kind = "NotImplementedError"]
       ELSE LET reached == bfs_order(CG, <<n>>, <<n>>)
                grown == rcd_loop(constraints, Tail(reached.nodes),
                                  constraints[n + 1], self.size)
            IN IF reached.kind # "ok"
               THEN [called EXCEPT !.kind = reached.kind]
               ELSE IF grown.kind # "ok"
               THEN [called EXCEPT !.kind = grown.kind]
               ELSE LET sub == subbqm_of(state.problem, grown.vars,
                                         first_sample(state.samples))
                    IN IF sub = None
                       THEN [called EXCEPT !.kind = "EmptySelection"]
                       ELSE [called EXCEPT
                                !.kind = "ok",
                                !.out = Some(updated_subproblem(converted(state),
                                                                sub[1]))]

\* range(len(CG)): the seeds random.choice draws from.
seeds(self) == 0 .. Cardinality(self.graph[1].nodes) - 1

\* random.choice(range(len(CG))) over an empty range
rcd_next_empty(self) == [self EXCEPT !.seed = None, !.out = None, !.kind = "IndexError"]

\* RandomConstraintDecomposer(size, constraints)
RcdConstruct(size, constraints) ==
    /\ ~rcd.made
    /\ rcd' = rcd_new(size, constraints)
    /\ UNCHANGED <<eid, ctor, last, prev, cycle, covered, stalled, tick, search, tcd,
                 rsd, idd, flight, pfs>>

\* decomposer.init(state), once, on a problem that has the variables of the
\* constraints
RcdInit(state) ==
    /\ rcd.made
    /\ rcd.graph = None
    /\ ConstraintVariables(rcd.constraints) \subseteq Variables(state.problem)
    /\ rcd' = rcd_init(rcd, state)
    /\ UNCHANGED <<eid, ctor, last, prev, cycle, covered, stalled, tick, search, tcd,
                 rsd, idd, flight, pfs>>

\* decomposer.next(state) on the problem of the setup
RcdNext(state) ==
    /\ rcd.made
    /\ rcd.graph # None
    /\ state.problem = rcd.problem[1]
    /\ IF seeds(rcd) = {}
       THEN rcd' = rcd_next_empty(rcd)
       ELSE \E n \in seeds(rcd) : rcd' = rcd_next(rcd, state, n)
    /\ UNCHANGED <<eid, ctor, last, prev, cycle, covered, stalled, tick, search, tcd,
                 rsd, idd, flight, pfs>>

InitRCD ==
    /\ EidIdle
    /\ stalled = None
    /\ search = NoSearch
    /\ tcd = NoTcd
    /\ rcd = NoRcd
    /\ rsd = NoRsd
    /\ idd = NoIdd
    /\ flight = NoFlight
    /\ pfs = NoPfs

NextRCD ==
    \/ \E size \in 0 .. MaxSize + 1, constraints \in ConstraintLists :
          RcdConstruct(size, constraints)
    \/ \E state \in InputStates : RcdInit(state)
    \/ \E state \in InputStates : RcdNext(state)

SpecRCD == InitRCD /\ [][NextRCD]_vars

\* --------------------------------------------- RandomSubproblemDecomposer

\* utils.select_random_subgraph(bqm, size): the subsets a uniform draw of
\* `size` variables can give.
select_random_subgraph(bqm, size) ==
    {S \in SUBSET Variables(bqm) : Cardinality(S) = size}

\* RandomSubproblemDecomposer.__init__
rsd_new(size) ==
    [made |-> TRUE, size |-> size, kind |-> "none", input |-> None,
     out |-> None]

\* Mutant: a size equal to the variable count is refused too.
size_exceeds_or_equals(size, bqm) == size >= bqm.n

\* `self.size > len(bqm)`
size_exceeds(size, bqm) == size > bqm.n

\* RandomSubproblemDecomposer.next with `variables` the draw of
\* select_random_subgraph.
rsd_next(self, state, variables) ==
    LET called == [self EXCEPT !.input = Some(state), !.out = None]
        sub == subbqm_of(state.problem, variables, first_sample(state.samples))
    IN IF size_exceeds(self.size, state.problem)
       THEN [called EXCEPT !.kind = "ValueError"]
       ELSE IF sub = None
       THEN [called EXCEPT !.kind = "EmptySelection"]
       ELSE [called EXCEPT !.kind = "ok",
                           !.out = Some(updated_subproblem(converted(state),
                                                           sub[1]))]

\* RandomSubproblemDecomposer(size)
RsdConstruct(size) ==
    /\ ~rsd.made
    /\ rsd' = rsd_new(size)
    /\ UNCHANGED <<eid, ctor, last, prev, cycle, covered, stalled, tick,
                   search, tcd, rcd, idd, flight, pfs>>

\* decomposer.next(state)
RsdNext(state) ==
    /\ rsd.made
    /\ IF size_exceeds(rsd.size, state.problem)
       THEN rsd' = rsd_next(rsd, state, {})
       ELSE \E variables \in select_random_subgraph(state.problem, rsd.size) :
               rsd' = rsd_next(rsd, state, variables)
    /\ UNCHANGED <<eid, ctor, last, prev, cycle, covered, stalled, tick,
                   search, tcd, rcd, idd, flight, pfs>>

NextRSD ==
    \/ \E size \in 0 .. MaxSize + 1 : RsdConstruct(size)
    \/ \E state \in InputStates : RsdNext(state)

SpecRSD == Init /\ [][NextRSD]_vars

\* ---------------------------- EnergyImpactDecomposer.next, calls in flight

\* Threads of execution that call next on the one instance.
Threads == {1, 2}

\* Calls of next the threads make on the instance, in all.
MaxFlights == 2

\* A call of next in flight makes its accesses to the instance one at a time,
\* and between two of them the other thread may run.  `at` names the access
\* the call makes next:
\*   "sample_changed"  line 238, reads _prev_sample
\*   "clear"           line 224 called from 241, clears _unrolled_vars
\*   "record"          line 225 called from 241, writes _rolling_bqm
\*   "prev_sample"     line 244, writes _prev_sample
\*   "cached"          line 247, reads _variable_priority
\*   "rank"            line 249, writes _variable_priority
\*   "due"             line 252, reads the size of _unrolled_vars
\*   "rewind_clear"    line 224 called from 255, clears _unrolled_vars
\*   "rewind_record"   line 225 called from 255, writes _rolling_bqm
\*   "traverse"        line 262, reads _variable_priority for the traversal
\*   "energy"          line 97, tests one variable of the ranking against
\*                     _unrolled_vars
\*   "iter"            line 159, starts iterating _unrolled_vars
\*   "remove"          line 159, takes the next element of that iteration
\*   "source"          line 168, tests one candidate seed against
\*                     _unrolled_vars, and runs the round it seeds
\*   "update"          line 270, adds the selection to _unrolled_vars
\* The other fields are the locals of next and of the traversal.

\* next from its entry to the read of _rolling_bqm (lines 229-237).
eid_enter(self, state) ==
    [at |-> "sample_changed",
     bqm_changed |-> problem_changed(state.problem, self.rolling_bqm),
     sample_changed |-> FALSE, ordered_priority |-> <<>>,
     graph |-> [nodes |-> {}, edges |-> <<>>], used |-> 0, pos |-> 0,
     order |-> <<>>, variables |-> {}]

\* The call goes on / the call ends by raising `exc`.
Goes(self, c) == [self |-> self, call |-> c, end |-> "open"]

Ends(self, c, exc) == [self |-> self, call |-> c, end |-> exc]

\* After lines 240-241: `if sample_changed` (243), else the cache test (247),
\* which reads _variable_priority only when neither changed.
at_cache(c) ==
    IF c.sample_changed THEN "prev_sample"
    ELSE IF c.bqm_changed THEN "rank"
    ELSE "cached"

\* `if self.rolling` (251)
at_rolling(self) == IF self.rolling THEN "due" ELSE "traverse"

\* The traversal has returned next_vars (c.variables); line 269 is next.
selected(self, c) == Goes(self, [c EXCEPT !.at = "update"])

\* `while len(variables) < size and len(graph)` and the next(order) that
\* follows (lines 164-171): StopIteration leaves the loop.
igs_next(self, c) ==
    IF Cardinality(c.variables) < self.size /\ c.graph.nodes # {}
       /\ c.order # <<>>
    THEN Goes(self, [c EXCEPT !.at = "source"])
    ELSE selected(self, c)

\* One access of a call in flight to the instance, with the local steps that
\* follow it.  A set iterator raises RuntimeError when the set's size is not
\* what it was when the iteration started, and otherwise yields the next
\* element in table order, for the variables of the model ascending.
eid_step(self, c, state) ==
    LET bqm == state.problem
        sample == first_sample(state.samples)
        cleared == [self EXCEPT
                      !.unrolled_vars = rewind_rolling(self, state).unrolled_vars]
        recorded == [self EXCEPT
                       !.rolling_bqm = rewind_rolling(self, state).rolling_bqm]
    IN CASE c.at = "sample_changed" ->
              LET d == [c EXCEPT
                          !.sample_changed = Some(sample) # self.prev_sample]
              IN Goes(self, [d EXCEPT !.at = IF d.bqm_changed THEN "clear"
                                              ELSE at_cache(d)])
         [] c.at = "clear" -> Goes(cleared, [c EXCEPT !.at = "record"])
         [] c.at = "record" -> Goes(recorded, [c EXCEPT !.at = at_cache(c)])
         [] c.at = "prev_sample" ->
              Goes([self EXCEPT !.prev_sample = Some(sample)],
                   [c EXCEPT !.at = "rank"])
         [] c.at = "cached" ->
              Goes(self,
                   [c EXCEPT !.at =
                       IF cache_stale(c.bqm_changed, c.sample_changed,
                                      self.variable_priority)
                       THEN "rank" ELSE at_rolling(self)])
         [] c.at = "rank" ->
              Goes([self EXCEPT !.variable_priority =
                        impact(bqm, sample, self.min_gain)],
                   [c EXCEPT !.at = at_rolling(self)])
         [] c.at = "due" ->
              Goes(self,
                   [c EXCEPT !.at =
                       IF rolling_due(Cardinality(self.unrolled_vars),
                                      self.rolling_history, bqm.n)
                       THEN "rewind_clear" ELSE "traverse"])
         [] c.at = "rewind_clear" ->
              Goes(cleared, [c EXCEPT !.at = "rewind_record"])
         [] c.at = "rewind_record" ->
              IF ~self.silent_rewind THEN Ends(recorded, c, "EndOfStream")
              ELSE Goes(recorded, [c EXCEPT !.at = "traverse"])
         [] c.at = "traverse" ->
              LET d == [c EXCEPT
                          !.ordered_priority = self.variable_priority,
                          !.order = Keys(self.variable_priority)]
              IN IF self.traverse = "energy"
                 THEN IF self.size < 1 \/ d.order = <<>> THEN selected(self, d)
                      ELSE Goes(self, [d EXCEPT !.at = "energy"])
                 ELSE Goes(self, [d EXCEPT !.at = "iter",
                                           !.graph = to_networkx_graph(bqm)])
         [] c.at = "energy" ->
              LET v == Head(c.order)
                  d == [c EXCEPT
                          !.variables = IF v \in self.unrolled_vars THEN @
                                        ELSE @ \cup {v},
                          !.order = Tail(@)]
              IN IF Cardinality(d.variables) >= self.size \/ d.order = <<>>
                 THEN selected(self, d)
                 ELSE Goes(self, d)
         [] c.at = "iter" ->
              Goes(self, [c EXCEPT !.at = "remove",
                                   !.used = Cardinality(self.unrolled_vars),
                                   !.pos = 0])
         [] c.at = "remove" ->
              LET rest == {v \in self.unrolled_vars : v > c.pos}
                  v == CHOOSE x \in rest : \A y \in rest : x <= y
              IN IF Cardinality(self.unrolled_vars) # c.used
                 THEN Ends(self, c, "RuntimeError")
                 ELSE IF rest = {} THEN igs_next(self, c)
                 ELSE Goes(self, [c EXCEPT
                                    !.graph = remove_nodes_from(@, {v}),
                                    !.pos = v])
         [] c.at = "source" ->
              LET source == Head(c.order)
                  found == Method(self.traverse, c.graph, source,
                                  self.size - Cardinality(c.variables),
                                  c.ordered_priority)
              IN IF source \in self.unrolled_vars \/ source \in c.variables
                 THEN IF Tail(c.order) = <<>> THEN selected(self, c)
                      ELSE Goes(self, [c EXCEPT !.order = Tail(@)])
                 ELSE IF found.kind # "ok" THEN Ends(self, c, found.kind)
                 ELSE igs_next(self,
                               [c EXCEPT
                                  !.variables = @ \cup found.vars,
                                  !.graph = remove_nodes_from(@, found.vars),
                                  !.order = Tail(@)])

\* `if self.rolling: self._unrolled_vars.update(next_vars)` and the return
\* (lines 269-274).
eid_finish(self, call) ==
    [self EXCEPT !.unrolled_vars = unrolled_update(self, call.variables)]

\* The calls in flight without the one of thread th.
Without(th) == [t \in DOMAIN flight.open \ {th} |-> flight.open[t]]

\* A thread enters next(state) and runs it up to its first access.
Begin(th, state) ==
    /\ eid # None
    /\ th \notin DOMAIN flight.open
    /\ flight.calls < MaxFlights
    /\ flight' = [flight EXCEPT
                    !.calls = @ + 1,
                    !.open = (th :> eid_enter(eid[1], state)) @@ @,
                    !.raced = @ \/ DOMAIN flight.open # {}]
    /\ UNCHANGED <<eid, ctor, last, prev, cycle, covered, stalled, tick,
                   search, tcd, rcd, rsd, idd, pfs>>

\* The thread makes the next access of its call; a call that raises ends
\* here.  Clearing the visited set starts a coverage cycle.
Step(th, state) ==
    /\ eid # None
    /\ th \in DOMAIN flight.open
    /\ flight.open[th].at # "update"
    /\ \E r \in {eid_step(eid[1], flight.open[th], state)} :
          /\ eid' = Some(r.self)
          /\ flight' =
               [open |-> IF r.end = "open" THEN (th :> r.call) @@ Without(th)
                         ELSE Without(th),
                done |-> IF flight.open[th].at \in {"clear", "rewind_clear"}
                         THEN <<>> ELSE flight.done,
                raced |-> IF flight.open[th].at \in {"clear", "rewind_clear"}
                          THEN DOMAIN Without(th) # {} ELSE flight.raced,
                calls |-> flight.calls]
    /\ UNCHANGED <<ctor, last, prev, cycle, covered, stalled, tick, search,
                   tcd, rcd, rsd, idd, pfs>>

\* The thread adds its selection to the visited set and returns.
Finish(th) ==
    /\ eid # None
    /\ th \in DOMAIN flight.open
    /\ flight.open[th].at = "update"
    /\ eid' = Some(eid_finish(eid[1], flight.open[th]))
    /\ flight' =
         [flight EXCEPT
            !.open = Without(th),
            !.done = IF eid[1].rolling /\ flight.open[th].variables # {}
                     THEN Append(flight.done, flight.open[th].variables)
                     ELSE flight.done]
    /\ UNCHANGED <<ctor, last, prev, cycle, covered, stalled, tick, search,
                   tcd, rcd, rsd, idd, pfs>>

\* The configurations the threads share an instance of: rolling, no min_gain.
ConcurrentArgs == {args \in EidArgs : args.min_gain = None /\ args.rolling}

\* The states of the stalled workflow the threads pass in: every variable
\* at -1.
ConcurrentStates ==
    {State(bqm, [vartype |-> "SPIN", values |-> AllOf(bqm, -1)]) :
        bqm \in Problems}

InitConcurrent ==
    /\ EidIdle
    /\ stalled \in {Some(state) : state \in ConcurrentStates}
    /\ search = NoSearch
    /\ tcd = NoTcd
    /\ rcd = NoRcd
    /\ rsd = NoRsd
    /\ idd = NoIdd
    /\ flight = NoFlight
    /\ pfs = NoPfs

\* Two threads calling next on one instance with the state of a stalled
\* workflow.
NextConcurrent ==
    \/ \E args \in ConcurrentArgs : Construct(args)
    \/ \E th \in Threads : stalled # None /\ Begin(th, stalled[1])
    \/ \E th \in Threads : stalled # None /\ Step(th, stalled[1])
    \/ \E th \in Threads : Finish(th)

SpecConcurrent == InitConcurrent /\ [][NextConcurrent]_vars

\* ------------------------------------------------------ IdentityDecomposer

\* IdentityDecomposer()
idd_new == [made |-> TRUE, kind |-> "none", input |-> None, out |-> None]

\* IdentityDecomposer.next
idd_next(self, state) ==
    [self EXCEPT !.kind = "ok", !.input = Some(state),
                 !.out = Some([state EXCEPT !.subproblem = Some(state.problem)])]

IddConstruct ==
    /\ ~idd.made
    /\ idd' = idd_new
    /\ UNCHANGED <<eid, ctor, last, prev, cycle, covered, stalled, tick,
                   search, tcd, rcd, rsd, flight, pfs>>

\* decomposer.next(state)
IddNext(state) ==
    /\ idd.made
    /\ idd' = idd_next(idd, state)
    /\ UNCHANGED <<eid, ctor, last, prev, cycle, covered, stalled, tick,
                   search, tcd, rcd, rsd, flight, pfs>>

NextIdentity ==
    \/ IddConstruct
    \/ \E state \in InputStates : IddNext(state)

\* ------------------------------------------- any one of the five decomposers

EidUnused == ctor = NoCtor

TcdUnused == tcd = NoTcd

RcdUnused == rcd = NoRcd

RsdUnused == rsd = NoRsd

IddUnused == idd = NoIdd

\* A workflow branch holds one decomposer: whichever is constructed first is
\* the one that is used.
NextAny ==
    \/ TcdUnused /\ RcdUnused /\ RsdUnused /\ IddUnused /\ Next
    \/ EidUnused /\ RcdUnused /\ RsdUnused /\ IddUnused /\ NextTiling
    \/ EidUnused /\ TcdUnused /\ RsdUnused /\ IddUnused /\ NextRCD
    \/ EidUnused /\ TcdUnused /\ RcdUnused /\ IddUnused /\ NextRSD
    \/ EidUnused /\ TcdUnused /\ RcdUnused /\ RsdUnused /\ NextIdentity

SpecAny == Init /\ [][NextAny]_vars

\* ------------------------------------------- _pfs_nodes, step by step

\* The calls _iterative_graph_search makes: a graph with some nodes removed,
\* a source that the ranking holds and the graph still has.
PfsInputs ==
    UNION {{[phase |-> "called",
             graph |-> remove_nodes_from(to_networkx_graph(bqm), removed),
             source |-> source, size |-> size, priority |-> r,
             queue |-> {}, counter |-> 0, visited |-> {}, enqueued |-> {},
             order |-> <<>>, before |-> {}, popped |-> None] :
               removed \in SUBSET Variables(bqm), r \in RankingsOf(bqm),
               source \in Variables(bqm), size \in 0 .. MaxSize}
           : bqm \in Problems}

\* Mutant: the entry pushed first is popped first, whatever its priority.
heap_top_fifo(queue) ==
    CHOOSE e \in queue : \A f \in queue : e.counter <= f.counter

\* `_, _, node = pop()`: the entry heappop takes from the queue.
pop(queue) == heap_top(queue)

\* _pfs_nodes up to its loop: `if size < 1: return iter(())`, else the push
\* of the source.
PfsStart ==
    /\ pfs.phase = "called"
    /\ pfs' =
         IF pfs.size < 1 THEN [pfs EXCEPT !.phase = "done"]
         ELSE IF Get(pfs.priority, pfs.source) = None
         THEN [pfs EXCEPT !.phase = "TypeError"]
         ELSE [pfs EXCEPT
                 !.phase = "running",
                 !.queue = {[priority |-> Get(pfs.priority, pfs.source)[1],
                             counter |-> 0, node |-> pfs.source]},
                 !.counter = 1]
    /\ UNCHANGED <<eid, ctor, last, prev, cycle, covered, stalled, tick,
                   search, tcd, rcd, rsd, idd, flight>>

\* One iteration of `while queue and len(visited) < size`.
PfsPop ==
    /\ pfs.phase = "running"
    /\ pfs.queue # {}
    /\ Cardinality(pfs.visited) < pfs.size
    /\ LET top == pop(pfs.queue)
           rest == pfs.queue \ {top}
           unqueued(v) == v \notin pfs.enqueued
           fresh == SelectSeq(adj(pfs.graph, top.node), unqueued)
           pushed == {[priority |-> Get(pfs.priority, fresh[i])[1],
                       counter |-> pfs.counter + i - 1,
                       node |-> fresh[i]] : i \in DOMAIN fresh}
       IN pfs' =
            IF top.node \in pfs.visited
            THEN [pfs EXCEPT !.queue = rest, !.before = pfs.queue,
                             !.popped = None]
            ELSE IF top.node \notin pfs.graph.nodes
            THEN [pfs EXCEPT !.phase = "KeyError"]
            ELSE IF \E i \in DOMAIN fresh : Get(pfs.priority, fresh[i]) = None
            THEN [pfs EXCEPT !.phase = "TypeError"]
            ELSE [pfs EXCEPT
                    !.queue = rest \cup pushed,
                    !.counter = pfs.counter + Len(fresh),
                    !.visited = pfs.visited \cup {top.node},
                    !.enqueued = pfs.enqueued \cup Range(fresh),
                    !.order = Append(pfs.order, top.node),
                    !.before = pfs.queue,
                    !.popped = Some(top)]
    /\ UNCHANGED <<eid, ctor, last, prev, cycle, covered, stalled, tick,
                   search, tcd, rcd, rsd, idd, flight>>

\* The loop condition fails: `return iter(visited)`.
PfsReturn ==
    /\ pfs.phase = "running"
    /\ ~(pfs.queue # {} /\ Cardinality(pfs.visited) < pfs.size)
    /\ pfs' = [pfs EXCEPT !.phase = "done"]
    /\ UNCHANGED <<eid, ctor, last, prev, cycle, covered, stalled, tick,
                   search, tcd, rcd, rsd, idd, flight>>

InitPfs ==
    /\ EidIdle
    /\ stalled = None
    /\ search = NoSearch
    /\ tcd = NoTcd
    /\ rcd = NoRcd
    /\ rsd = NoRsd
    /\ idd = NoIdd
    /\ flight = NoFlight
    /\ pfs \in {c \in PfsInputs :
                  /\ c.source \in c.graph.nodes
                  /\ Get(c.priority, c.source) # None}

NextPfs == PfsStart \/ PfsPop \/ PfsReturn

SpecPfs == InitPfs /\ [][NextPfs]_vars

\* ---------------------------------- _iterative_graph_search, round by round

RoundInputs ==
    UNION {{[phase |-> "called", method |-> m, bqm |-> bqm,
             ordered_priority |-> r, visited |-> visited, size |-> size,
             graph |-> to_networkx_graph(bqm), variables |-> {},
             order |-> <<>>, rounds |-> 0, source |-> None, nodes |-> {},
             selected |-> {}] :
               m \in {"bfs", "pfs"}, r \in RankingsOf(bqm),
               visited \in SUBSET Variables(bqm), size \in 0 .. MaxSize}
           : bqm \in Problems}

\* Mutant: the graph keeps the nodes it is told to remove.
remove_nodes_from_none(graph, S) == graph

\* `graph.remove_nodes_from(nodes)` at the end of a round
remove_selected(graph, nodes) == remove_nodes_from(graph, nodes)

\* Lines 158-162: the graph without the visited variables, the empty
\* selection, the iterator over the ranking.
IgsStart ==
    /\ search.phase = "called"
    /\ search' = [search EXCEPT
           !.phase = "loop",
           !.graph = remove_nodes_from(search.graph, search.visited),
           !.order = Keys(search.ordered_priority)]
    /\ UNCHANGED <<eid, ctor, last, prev, cycle, covered, stalled, tick,
                   tcd, rcd, rsd, idd, flight, pfs>>

\* One iteration of `while len(variables) < size and len(graph)`: the seed,
\* the search from it, the update of the selection and of the graph; the
\* ranking running out breaks the loop.
IgsRound ==
    /\ search.phase = "loop"
    /\ Cardinality(search.variables) < search.size
    /\ search.graph.nodes # {}
    /\ LET from == next_source(search.order,
                               search.visited \cup search.variables)
           found == Method(search.method, search.graph, Head(from),
                           search.size - Cardinality(search.variables),
                           search.ordered_priority)
       IN search' =
            IF from = <<>> THEN [search EXCEPT !.phase = "done"]
            ELSE IF found.kind # "ok" THEN [search EXCEPT !.phase = found.kind]
            ELSE [search EXCEPT
                    !.variables = search.variables \cup found.vars,
                    !.graph = remove_selected(search.graph, found.vars),
                    !.order = Tail(from),
                    !.rounds = search.rounds + 1,
                    !.source = Some(Head(from)),
                    !.nodes = found.vars,
                    !.selected = search.variables]
    /\ UNCHANGED <<eid, ctor, last, prev, cycle, covered, stalled, tick,
                   tcd, rcd, rsd, idd, flight, pfs>>

\* The loop condition fails: `return variables`.
IgsReturn ==
    /\ search.phase = "loop"
    /\ ~(Cardinality(search.variables) < search.size /\ search.graph.nodes # {})
    /\ search' = [search EXCEPT !.phase = "done"]
    /\ UNCHANGED <<eid, ctor, last, prev, cycle, covered, stalled, tick,
                   tcd, rcd, rsd, idd, flight, pfs>>

InitRounds ==
    /\ EidIdle
    /\ stalled = None
    /\ search \in RoundInputs
    /\ tcd = NoTcd
    /\ rcd = NoRcd
    /\ rsd = NoRsd
    /\ idd = NoIdd
    /\ flight = NoFlight
    /\ pfs = NoPfs

NextRounds == IgsStart \/ IgsRound \/ IgsReturn

SpecRounds == InitRounds /\ [][NextRounds]_vars

\* ------------------------------------------------------------------ claims

Constructed == eid # None

Called == eid # None /\ last.kind # "none"

RollingEnergy == Called /\ eid[1].rolling /\ eid[1].traverse = "energy"

\* C1 as stated (its case rolling_history > 0): with rolling and traversal
\* 'energy' the visited set never holds more than
\* ceil(rolling_history * |variables|) variables.
C1_VisitedWithinHistory ==
    (RollingEnergy /\ eid[1].rolling_history > 0) =>
        (Cardinality(eid[1].unrolled_vars) - 1) * RHDen
            < eid[1].rolling_history * last.problem[1].n

\* C1 amended: with rolling and traversal 'energy' a select call rewinds
\* exactly when it starts with at least rolling_history * |variables| visited
\* variables, and the visited set never holds more than
\* max(ceil(rolling_history * |variables|) - 1, 0) + size variables.
C1_VisitedBound ==
    RollingEnergy =>
        /\ last.rolled <=>
               Cardinality(last.pre) * RHDen
                   >= eid[1].rolling_history * last.problem[1].n
        /\ \/ Cardinality(eid[1].unrolled_vars) <= eid[1].size
           \/ (Cardinality(eid[1].unrolled_vars) - eid[1].size) * RHDen
                  < eid[1].rolling_history * last.problem[1].n

\* A threshold rewind of a non-empty visited set followed by a selection that
\* leaves more than ceil(rolling_history * |variables|) variables visited.
C1_Witness ==
    /\ RollingEnergy
    /\ last.rolled
    /\ last.pre # {}
    /\ last.kind = "ok"
    /\ (Cardinality(eid[1].unrolled_vars) - 1) * RHDen
           >= eid[1].rolling_history * last.problem[1].n

RollingLoud == Called /\ eid[1].rolling /\ ~eid[1].silent_rewind

\* C2 as stated (for a positive size): with silent_rewind = false, for every
\* rolling_history in [0, 1], the
\* select call that follows a rewinding (EndOfStream) call on the same problem
\* does not raise EndOfStream.
C2_NextCallNotEndOfStream ==
    (RollingLoud /\ eid[1].size > 0 /\ prev.kind = "EndOfStream" /\ last.problem = prev.problem)
        => last.kind # "EndOfStream"

\* C2 amended: with silent_rewind = false a select call raises EndOfStream
\* exactly when it triggers the rolling rewind, and the visited set is then
\* cleared; when rolling_history * |variables| > 0 the select call that follows
\* on the same problem does not raise EndOfStream and selects from an empty
\* visited set.
C2_RewindThenFresh ==
    RollingLoud =>
        /\ last.rolled <=> last.kind = "EndOfStream"
        /\ last.kind = "EndOfStream" =>
               /\ eid[1].unrolled_vars = {}
               /\ last.out = None
        /\ ( /\ prev.kind = "EndOfStream"
             /\ last.problem = prev.problem
             /\ eid[1].rolling_history * last.problem[1].n > 0 )
           => /\ last.kind # "EndOfStream"
              /\ last.pre = {}
              /\ eid[1].unrolled_vars = last.next_vars
              /\ last.kind = "ok" =>
                     last.out[1].subproblem[1].variables = last.next_vars

\* A call that raised EndOfStream followed by a call on the same problem that
\* returned a subproblem selected from an empty visited set.
C2_Witness ==
    /\ RollingLoud
    /\ prev.kind = "EndOfStream"
    /\ last.problem = prev.problem
    /\ last.kind = "ok"
    /\ last.pre = {}
    /\ last.next_vars # {}

\* C7: with rolling enabled, in every traversal mode, the subsets returned
\* between two consecutive rewinds are pairwise disjoint.
C7_CycleDisjoint ==
    \A i, j \in DOMAIN cycle : i < j => cycle[i] \cap cycle[j] = {}

\* Three subsets returned in one coverage cycle by a graph traversal.
C7_Witness ==
    /\ Called
    /\ eid[1].rolling
    /\ eid[1].traverse = "pfs"
    /\ Len(cycle) >= 3

\* The first `size` variables of the gain-descending ranking.
TopRanked(bqm, sample, min_gain, size) ==
    LET ranking == Keys(flip_energy_gains(bqm, sample, min_gain))
    IN {ranking[i] : i \in 1 .. Min(size, Len(ranking))}

\* C8: with rolling disabled and traversal 'energy' every select call selects
\* exactly the first `size` variables of the gain-descending ranking and
\* returns the subproblem they induce, whatever calls came before; the visited
\* set stays empty.
C8_TopRankedAlways ==
    (Called /\ ~eid[1].rolling /\ eid[1].traverse = "energy") =>
        LET top == TopRanked(last.problem[1], last.sample, eid[1].min_gain,
                             eid[1].size)
        IN /\ eid[1].unrolled_vars = {}
           /\ last.next_vars = top
           /\ last.kind = (IF top = {} THEN "EmptySelection" ELSE "ok")
           /\ last.kind = "ok" =>
                  /\ last.out # None
                  /\ last.out[1].subproblem
                         = bqm_induced_by(last.problem[1], top, last.sample)
           /\ ( /\ last.problem = Some(ProblemK4)
                /\ last.sample = AllOf(ProblemK4, 1)
                /\ eid[1].size = 2
                /\ eid[1].min_gain = None )
              => last.next_vars = {1, 2}

\* The scenario of the spec (gains 5, 3, 1, 0, size 2) after an earlier call
\* on another problem: {a, b} is returned.
C8_Witness ==
    /\ Called
    /\ ~eid[1].rolling
    /\ eid[1].traverse = "energy"
    /\ eid[1].size = 2
    /\ eid[1].min_gain = None
    /\ prev.kind = "ok"
    /\ prev.problem = Some(ProblemPath)
    /\ last.problem = Some(ProblemK4)
    /\ last.sample = AllOf(ProblemK4, 1)
    /\ last.kind = "ok"
    /\ last.next_vars = {1, 2}

\* C9: a rolling_history outside [0, 1], whatever the other options, or an
\* unsupported traversal mode makes the constructor raise ValueError and
\* produce no instance.
C9_InvalidConfigRejected ==
    ( /\ ctor.args # None
      /\ \/ ctor.args[1].rolling_history < 0
         \/ ctor.args[1].rolling_history > RHDen
         \/ ctor.args[1].traversal \notin {"energy", "bfs", "pfs"} )
    => (ctor.kind = "ValueError" /\ eid = None)

StalledFull ==
    /\ Constructed
    /\ eid[1].rolling
    /\ eid[1].rolling_history = RHDen
    /\ eid[1].min_gain = None
    /\ eid[1].size >= 1

AllCovered == covered = Variables(stalled[1].problem)

\* C6 as stated (its case of no min_gain, a positive size and a positive
\* rolling_history): with rolling
\* enabled and a stalled assignment every variable of the problem is
\* eventually included in some returned subproblem.
C6_EventualCoverage ==
    []((Constructed /\ eid[1].rolling /\ eid[1].min_gain = None
          /\ eid[1].size >= 1 /\ eid[1].rolling_history > 0) => <>AllCovered)

\* C6 amended: with rolling enabled, rolling_history = 1, no min_gain and
\* size >= 1, repeated select calls on a stalled state eventually include
\* every variable of the problem in some returned subproblem.
C6_FullHistoryCoverage ==
    [](StalledFull => <>AllCovered)

\* Every variable has been returned, over at least two calls of one cycle.
C6_Witness ==
    /\ StalledFull
    /\ AllCovered
    /\ Len(cycle) >= 2

SearchDone == search.done /\ search.result.kind = "ok"

\* C5: _iterative_graph_search with _bfs_nodes or _pfs_nodes returns at most
\* `size` variables and no variable of the visited set.
C5_SearchWithinSizeUnvisited ==
    SearchDone =>
        /\ Cardinality(search.result.vars) <= search.size
        /\ search.result.vars \cap search.visited = {}

\* A priority-first search over several rounds that fills its size next to a
\* non-empty visited set.
C5_Witness ==
    /\ SearchDone
    /\ search.method = "pfs"
    /\ search.bqm = ProblemPath
    /\ search.visited = {2}
    /\ Cardinality(search.result.vars) = 3
    /\ search.size = 3

TilesOf == chimera_tiles(tcd.problem[1], tcd.size)

ReturnsTile(k) ==
    /\ tcd.kind = "ok"
    /\ tcd.out # None
    /\ tcd.out[1].subproblem # None
    /\ tcd.out[1].subproblem[1].variables = DOMAIN TilesOf[k]
    /\ tcd.out[1].embedding = Some(TilesOf[k])

\* C3: after a setup that computed T tiles the first T select calls return the
\* tiles in order, each with its embedding; the (T+1)-th call raises
\* EndOfStream and returns no state with loop disabled, and returns the first
\* tile again with loop enabled.
C3_TilesThenEndOfStream ==
    (tcd.made /\ tcd.blocks # None /\ tcd.calls >= 1) =>
        /\ tcd.calls <= Len(TilesOf) => ReturnsTile(tcd.calls)
        /\ (tcd.calls = Len(TilesOf) + 1 /\ tcd.loop) => ReturnsTile(1)
        /\ (tcd.calls = Len(TilesOf) + 1 /\ ~tcd.loop) =>
               (tcd.kind = "EndOfStream" /\ tcd.out = None)

RcdReturned == rcd.made /\ rcd.kind = "ok" /\ rcd.out # None

RcdVariables == rcd.out[1].subproblem[1].variables

\* C4: every select call of the RandomConstraintDecomposer that returns a
\* state returns a subproblem whose variables are a union of whole constraint
\* groups and number at most `size`.
C4_WholeGroupsWithinSize ==
    RcdReturned =>
        /\ \E groups \in SUBSET DOMAIN rcd.constraints :
              RcdVariables = UNION {rcd.constraints[ci] : ci \in groups}
        /\ Cardinality(RcdVariables) <= rcd.size

\* A call that returned after the traversal met a group that did not fit.
C4_Witness ==
    /\ RcdReturned
    /\ rcd.constraints = <<{1, 2}, {2, 3, 4}>>
    /\ rcd.size = 3
    /\ rcd.seed = Some(0)
    /\ RcdVariables = {1, 2}

\* The accumulation by set union: each reached group that fits is added whole,
\* the traversal stops at exactly `size` variables.
RECURSIVE UnionAccumulation(_, _, _, _)
UnionAccumulation(constraints, targets, variables, size) ==
    IF targets = <<>> THEN variables
    ELSE LET proposed == constraints[Head(targets) + 1] \ variables
             grown == IF Cardinality(proposed) + Cardinality(variables) <= size
                      THEN variables \cup proposed ELSE variables
         IN IF Cardinality(grown) = size THEN grown
            ELSE UnionAccumulation(constraints, Tail(targets), grown, size)

\* C10: a select call whose seed is a constraint of the adjacency graph adds
\* every group reached breadth-first that fits within `size`, stops at exactly
\* `size` variables and returns the subproblem induced by the accumulated
\* subset.
C10_GroupsAccumulated ==
    (/\ rcd.made
     /\ rcd.graph # None
     /\ rcd.seed # None
     /\ rcd.seed[1] \in rcd.graph[1].nodes
     /\ rcd.kind # "NotImplementedError") =>
        /\ RcdReturned
        /\ RcdVariables =
              UnionAccumulation(rcd.constraints,
                                Tail(bfs_order(rcd.graph[1], <<rcd.seed[1]>>,
                                               <<rcd.seed[1]>>).nodes),
                                rcd.constraints[rcd.seed[1] + 1], rcd.size)

\* C11: after setup the seeds select can pick are exactly the configured
\* constraint groups, every seed is a node of the constraint-adjacency graph,
\* and so no call fails to draw a seed or to start its traversal.
C11_SeedsAreGroupsAndNodes ==
    (rcd.made /\ rcd.graph # None) =>
        /\ seeds(rcd) = 0 .. Len(rcd.constraints) - 1
        /\ seeds(rcd) \subseteq rcd.graph[1].nodes
        /\ rcd.kind \notin {"IndexError", "NetworkXError"}

\* C12: a select call recomputes the ranking exactly when its problem or its
\* assignment differs from the previous call's or the cached ranking is empty,
\* and after every call, returned or raised, the cached ranking is the
\* ImpactScorer result for that call's problem and assignment.
C12_RankingCache ==
    Called =>
        /\ last.recomputed <=>
               \/ last.problem # prev.problem
               \/ last.sample # prev.sample
               \/ last.cached_empty
        /\ eid[1].variable_priority =
               impact(last.problem[1], last.sample, eid[1].min_gain)

\* A call that reused a non-empty ranking and raised EndOfStream.
C12_Witness ==
    /\ Called
    /\ ~last.recomputed
    /\ last.kind = "EndOfStream"
    /\ eid[1].variable_priority # <<>>
    /\ last.problem = prev.problem
    /\ last.sample = prev.sample

RsdCalled == rsd.made /\ rsd.kind # "none"

\* C13: a RandomSubproblemDecomposer select call raises ValueError and
\* returns no state exactly when `size` exceeds the variable count; a returned
\* subproblem has exactly `size` distinct variables of the problem, whatever
\* calls came before.
C13_RandomSubsetOfSize ==
    RsdCalled =>
        /\ rsd.kind = "ValueError" <=> rsd.size > rsd.input[1].problem.n
        /\ rsd.kind # "ok" => rsd.out = None
        /\ rsd.kind = "ok" =>
              /\ rsd.out # None
              /\ rsd.out[1].subproblem[1].variables
                     \subseteq Variables(rsd.input[1].problem)
              /\ Cardinality(rsd.out[1].subproblem[1].variables) = rsd.size

\* A call with size equal to the variable count that returned every variable.
C13_Witness ==
    /\ RsdCalled
    /\ rsd.kind = "ok"
    /\ rsd.size = 4
    /\ rsd.input[1].problem = ProblemPath
    /\ rsd.out[1].subproblem[1].variables = {1, 2, 3, 4}

\* C14: with rolling enabled, calls of select on one instance and problem
\* that run one after the other never return a variable twice within one
\* coverage cycle; two calls in flight together can (C14_Witness): both read
\* the visited set before either adds to it and return the same variables.
C14_SequentialNeverRepeats ==
    (Constructed /\ eid[1].rolling /\ ~flight.raced) =>
        \A i, j \in DOMAIN flight.done :
            i < j => flight.done[i] \cap flight.done[j] = {}

\* Two calls that were in flight together returned the same variables within
\* one coverage cycle.
C14_Witness ==
    /\ Constructed
    /\ eid[1].rolling
    /\ flight.raced
    /\ DOMAIN flight.open = {}
    /\ Len(flight.done) = 2
    /\ flight.done[1] = flight.done[2]
    /\ flight.done[1] # {}

\* The State `received` as it is after the call equals the State that was
\* passed in, and the returned State carries its problem and samples and
\* differs from it in the fields `changed` only.
FrameKept(input, received, out, changed) ==
    /\ received = input
    /\ out.problem = input.problem
    /\ out.samples = input.samples
    /\ "embedding" \notin changed => out.embedding = input.embedding
    /\ out.subproblem # None

\* C15: every decomposer's select leaves the State it receives unchanged and
\* returns a new State that differs from it only in `subproblem` (and
\* `embedding` for TilingChimeraDecomposer); `problem` and `samples` are
\* carried over unchanged; IdentityDecomposer's subproblem is the whole problem.
C15_InputStateUntouched ==
    /\ (idd.made /\ idd.kind = "ok") =>
          /\ FrameKept(idd.input[1], idd.input[1], idd.out[1], {"subproblem"})
          /\ idd.out[1].subproblem = Some(idd.input[1].problem)
    /\ (Called /\ last.kind = "ok") =>
          FrameKept(last.input[1], converted(last.input[1]), last.out[1],
                    {"subproblem"})
    /\ (rsd.made /\ rsd.kind = "ok") =>
          FrameKept(rsd.input[1], converted(rsd.input[1]), rsd.out[1],
                    {"subproblem"})
    /\ (tcd.made /\ tcd.kind = "ok") =>
          FrameKept(tcd.input[1], converted(tcd.input[1]), tcd.out[1],
                    {"subproblem", "embedding"})
    /\ (rcd.made /\ rcd.kind = "ok") =>
          FrameKept(rcd.input[1], converted(rcd.input[1]), rcd.out[1],
                    {"subproblem"})

\* What a decomposer fresh from the constructor call does with the state of
\* the last call.
FreshCall ==
    eid_select(eid_prepare(eid_init(ctor.args[1])[1], last.input[1]),
               last.input[1]).rec

\* C16: with rolling enabled, a select call whose problem differs from the
\* previous call's clears the visited set before selecting and selects what a
\* fresh decomposer would; a call on the same problem, whether or not the
\* assignment changed, leaves the visited set as it was unless the
\* rolling-history threshold is reached.
C16_ProblemChangeRewinds ==
    (Called /\ eid[1].rolling) =>
        /\ last.problem # prev.problem =>
              /\ last.pre = {}
              /\ last.kind = FreshCall.kind
              /\ last.next_vars = FreshCall.next_vars
              /\ last.out = FreshCall.out
        /\ last.problem = prev.problem =>
              /\ last.pre = last.entry
              /\ (~last.rolled /\ last.kind = "ok") =>
                    eid[1].unrolled_vars = last.entry \cup last.next_vars

\* A call on a new problem that returned variables the visited set held when
\* the call started.
C16_Witness ==
    /\ Called
    /\ eid[1].rolling
    /\ prev.kind = "ok"
    /\ last.problem # prev.problem
    /\ last.kind = "ok"
    /\ last.entry \cap last.next_vars # {}

\* C17: in _pfs_nodes the node absorbed at a step has the highest rank score
\* of the frontier and, among the frontier entries of that score, the lowest
\* insertion number; no node is absorbed twice, and the expansion stops at
\* `size` nodes or with the frontier empty, returning the absorbed nodes.
C17_PriorityFirstOrder ==
    pfs.phase \in {"running", "done"} =>
        /\ pfs.popped # None =>
              /\ pfs.popped[1] \in pfs.before
              /\ pfs.popped[1].node = pfs.order[Len(pfs.order)]
              /\ \A f \in pfs.before :
                    LET score(e) == Get(pfs.priority, e.node)[1]
                    IN \/ score(pfs.popped[1]) > score(f)
                       \/ /\ score(pfs.popped[1]) = score(f)
                          /\ pfs.popped[1].counter <= f.counter
        /\ \A i, j \in DOMAIN pfs.order : i < j => pfs.order[i] # pfs.order[j]
        /\ Range(pfs.order) = pfs.visited
        /\ Len(pfs.order) <= pfs.size
        /\ pfs.phase = "done" =>
              /\ Len(pfs.order) = pfs.size \/ pfs.queue = {}
              /\ Ok(pfs.visited) =
                     pfs_nodes(pfs.graph, pfs.source, pfs.size, pfs.priority)

\* An expansion under way in which the entry taken was not the one enqueued
\* first: it outranked an entry pushed before it.
C17_Witness ==
    /\ pfs.phase = "running"
    /\ pfs.popped # None
    /\ Len(pfs.order) >= 2
    /\ \E f \in pfs.before :
          /\ f.counter < pfs.popped[1].counter
          /\ f.priority < pfs.popped[1].priority
          /\ f.node \notin pfs.visited

\* The variables of the ranking that are neither visited nor in `chosen`.
Seedable(chosen) ==
    {v \in Range(Keys(search.ordered_priority)) :
        v \notin search.visited \cup chosen}

\* Position of a variable in the ranking.
RankOf(v) ==
    CHOOSE i \in DOMAIN search.ordered_priority :
        search.ordered_priority[i].v = v

\* C18: every round of _iterative_graph_search seeds from the next ranked
\* variable that is neither visited nor selected, adds at least one new
\* variable and removes what it selected from the graph, so no variable is
\* selected twice and the rounds are bounded by the selection; with a ranking
\* of every variable (no min_gain) the search returns exactly
\* min(size, number of variables not visited) variables.
C18_RoundsProgress ==
    search.phase \in {"loop", "done"} =>
        /\ search.rounds >= 1 =>
              /\ search.source[1] \in Seedable(search.selected)
              /\ \A v \in Seedable(search.selected) :
                    RankOf(search.source[1]) <= RankOf(v)
              /\ search.source[1] \in search.nodes
              /\ search.nodes \cap search.selected = {}
              /\ search.nodes \cap search.visited = {}
        /\ search.variables \cap search.graph.nodes = {}
        /\ search.rounds <= Cardinality(search.variables)
        /\ Cardinality(search.variables) <= search.size
        /\ search.phase = "done" =>
              /\ Ok(search.variables) =
                     iterative_graph_search(search.bqm, search.ordered_priority,
                                            search.visited, search.size,
                                            search.method)
              /\ Len(search.ordered_priority) = search.bqm.n =>
                    Cardinality(search.variables) =
                        Min(search.size,
                            search.bqm.n - Cardinality(search.visited))

\* A search that needed three rounds to fill its size on a graph left in
\* pieces by the visited variable.
C18_Witness ==
    /\ search.phase = "done"
    /\ search.rounds = 3
    /\ search.bqm = ProblemPath
    /\ search.visited = {2}
    /\ search.variables = {1, 3, 4}

\* The traversal of the last call run again with the size clamped to the
\* variable count: same ranking, same visited set.
ClampedTraversal ==
    traverse(eid[1].traverse, last.problem[1], eid[1].variable_priority,
             IF last.rolled THEN {} ELSE last.pre, last.problem[1].n)

\* C19: a select call of a decomposer whose size is larger than the variable
\* count raises no error for it and selects the variables that the size
\* clamped to the variable count selects, in every traversal mode.
C19_OversizeAsClamped ==
    (Called /\ eid[1].size > last.problem[1].n) =>
        /\ last.kind # "ValueError"
        /\ last.kind # "EndOfStream" =>
              /\ last.next_vars = ClampedTraversal.vars
              /\ last.kind \in {"ok", "EmptySelection"} <=>
                     ClampedTraversal.kind = "ok"

\* A priority-first call with size 3 on the two-variable problem that
\* returned both variables.
C19_Witness ==
    /\ Called
    /\ eid[1].traverse = "pfs"
    /\ eid[1].size = 3
    /\ last.problem = Some(ProblemPair)
    /\ last.kind = "ok"
    /\ last.next_vars = {1, 2}

RolledNow == Called /\ last.rolled

\* C20 as stated: with rolling enabled and size >= 1, whatever the min_gain,
\* the rolling_history and the traversal, a workflow that keeps calling select
\* with the same state sees the rolling rewind again and again.
C20_RewindsForever ==
    []((Constructed /\ eid[1].rolling /\ eid[1].size >= 1) => <>RolledNow)

\* C20 amended: the same with no min_gain threshold, the ranking then holding
\* every variable of the problem.
C20_RewindsForeverUnfiltered ==
    []((Constructed /\ eid[1].rolling /\ eid[1].size >= 1
          /\ eid[1].min_gain = None) => <>RolledNow)

\* A rewind of a graph traversal that had visited every variable of the
\* problem, with the full rolling history and no min_gain.
C20_Witness ==
    /\ RolledNow
    /\ eid[1].min_gain = None
    /\ eid[1].size >= 1
    /\ eid[1].traverse = "bfs"
    /\ eid[1].rolling_history = RHDen
    /\ last.entry = Variables(last.problem[1])
    /\ last.problem = Some(ProblemK4)

\* The graph the traversal of the last call searched: the problem's graph
\* without the visited variables.
SearchedGraph ==
    remove_nodes_from(to_networkx_graph(last.problem[1]),
                      IF last.rolled THEN {} ELSE last.pre)

\* C21: in a pfs select call every variable placed on the priority frontier,
\* the seeds and the neighbours pushed from the absorbed variables, has a
\* score in the cached ranking, whatever the min_gain, and the traversal does
\* not fail.
C21_FrontierScored ==
    (Called /\ eid[1].traverse = "pfs") =>
        /\ last.kind # "TypeError"
        /\ \A v \in last.next_vars :
              /\ Get(eid[1].variable_priority, v) # None
              /\ \A u \in Neighbors(SearchedGraph, v) :
                    Get(eid[1].variable_priority, u) # None

====
